---- MODULE Spec2Model ----
(***************************************************************************)
(* Batch AprilTag detection pipelines of rossng/apriltag-tests.            *)
(*                                                                         *)
(* Three detector programs share one design:                               *)
(*   "v0110"   detectors/kornia-apriltag-0.1.10/src/main.rs                *)
(*   "centred" detectors/kornia-rs-apriltag-centred-coordinates/src/main.rs*)
(*   "linefit" detectors/kornia-rs-apriltag-linefit/src/main.rs            *)
(* One run of main() is modelled, from the point where --input/--output    *)
(* have been parsed, as a sequential state machine.  The file system, the  *)
(* image loader and the tag decoder are the environment: each call to them *)
(* returns one of the outcomes the callee can produce.                     *)
(*                                                                         *)
(* A path inside the input directory is modelled by its file name, a       *)
(* sequence of one-character strings; a path inside the output directory   *)
(* likewise.                                                               *)
(***************************************************************************)
EXTENDS Integers, Sequences, FiniteSets, TLC

(***************************************************************************)
(* Bounds of the model.                                                    *)
(***************************************************************************)
\* Largest number of entries in the input directory.
MaxEntries == 2

\* Largest number of raw detections the decoder emits over a whole run.
MaxDetections == 2

\* Longest list of raw detections handed to the conversion on its own.
MaxRawLen == 2

\* Largest number of command-line tokens after the program name.
MaxArgs == 4

\* Milliseconds that pass on the clock during one instrumented run.
MaxTicks == 2

(***************************************************************************)
(* File names and std::path::Path.                                         *)
(***************************************************************************)
a_jpg        == <<"a", ".", "j", "p", "g">>
a_png        == <<"a", ".", "p", "n", "g">>
a_jpeg       == <<"a", ".", "j", "p", "e", "g">>
manifest_JPEG ==
    <<"m", "a", "n", "i", "f", "e", "s", "t", ".", "J", "P", "E", "G">>
b_bmp        == <<"b", ".", "b", "m", "p">>
noext        == <<"n", "o", "t", "e", "s">>
dot_jpg      == <<".", "j", "p", "g">>
d_jpg        == <<"d", ".", "j", "p", "g">>

\* The entries an input directory is populated from: name, whether
\* Path::is_file() holds, and the (width, height) of the picture in it.
Candidates ==
    { [name |-> a_jpg,        is_file |-> TRUE,  dims |-> <<4, 4>>],
      [name |-> a_png,        is_file |-> TRUE,  dims |-> <<8, 4>>],
      [name |-> a_jpeg,       is_file |-> TRUE,  dims |-> <<8, 4>>],
      [name |-> manifest_JPEG, is_file |-> TRUE, dims |-> <<4, 4>>],
      [name |-> b_bmp,        is_file |-> TRUE,  dims |-> <<4, 4>>],
      [name |-> noext,        is_file |-> TRUE,  dims |-> <<4, 4>>],
      [name |-> dot_jpg,      is_file |-> TRUE,  dims |-> <<4, 4>>],
      [name |-> d_jpg,        is_file |-> FALSE, dims |-> <<0, 0>>] }

\* Directory listings: every enumeration order of every set of at most
\* MaxEntries candidates (fs::read_dir yields entries in no fixed order).
DirListings ==
    { s \in UNION { [1..n -> Candidates] : n \in 0..MaxEntries } :
        \A i, j \in DOMAIN s : i # j => s[i] # s[j] }

\* Index of the last "." of a name, 0 if there is none.
last_dot(name) ==
    LET dots == { i \in 1..Len(name) : name[i] = "." }
    IN  IF dots = {} THEN 0 ELSE CHOOSE i \in dots : \A j \in dots : j <= i

\* path.extension().and_then(|e| e.to_str()).unwrap_or(""): Path::extension()
\* is None when the file name has no "." or only a leading one, and unwrap_or
\* turns that into the empty string; otherwise the part after the final ".".
extension(name) ==
    IF last_dot(name) <= 1 THEN <<>>
    ELSE SubSeq(name, last_dot(name) + 1, Len(name))

\* A mutation of file_stem: the extension is kept.
file_stem_mut(name) == name

\* Path::file_stem(): the whole file name when it has no "." or only a
\* leading one; otherwise the part before the final ".".
file_stem(name) ==
    IF last_dot(name) <= 1 THEN name
    ELSE SubSeq(name, 1, last_dot(name) - 1)

\* char::to_lowercase on the letters that occur in the names.
lower_char(c) ==
    CASE c = "J" -> "j"
      [] c = "P" -> "p"
      [] c = "E" -> "e"
      [] c = "G" -> "g"
      [] c = "N" -> "n"
      [] OTHER   -> c

\* A mutation of to_lowercase: the extension is compared as written.
to_lowercase_mut(s) == s

\* str::to_lowercase().
to_lowercase(s) == [i \in 1..Len(s) |-> lower_char(s[i])]

jpg  == <<"j", "p", "g">>
jpeg == <<"j", "p", "e", "g">>
png  == <<"p", "n", "g">>

\* The extension filter of the directory scan.
accepted_ext(v, ext) ==
    IF v = "linefit" THEN ext = jpg \/ ext = jpeg
    ELSE ext = jpg \/ ext = jpeg \/ ext = png

\* One directory entry passes the scan: a file with an accepted extension.
is_image(v, entry) ==
    /\ entry.is_file
    /\ accepted_ext(v, to_lowercase(extension(entry.name)))

dot_json == <<".", "j", "s", "o", "n">>

\* output_path.join(format!("{}.json", output_filename))
output_file(name) == file_stem(name) \o dot_json

\* output_path.join("manifest.json")
manifest_path ==
    <<"m", "a", "n", "i", "f", "e", "s", "t", ".", "j", "s", "o", "n">>

(***************************************************************************)
(* The family registry.                                                    *)
(***************************************************************************)
tag_family_to_string(kind) ==
    CASE kind = "Tag16H5"          -> "tag16h5"
      [] kind = "Tag36H11"         -> "tag36h11"
      [] kind = "Tag36H10"         -> "tag36h10"
      [] kind = "Tag25H9"          -> "tag25h9"
      [] kind = "TagCircle21H7"    -> "tagCircle21h7"
      [] kind = "TagCircle49H12"   -> "tagCircle49h12"
      [] kind = "TagCustom48H12"   -> "tagCustom48h12"
      [] kind = "TagStandard41H12" -> "tagStandard41h12"
      [] kind = "TagStandard52H13" -> "tagStandard52h13"
      [] OTHER                     -> "custom"

\* A mutation of get_supported_families: the registry listed in the order of
\* the match arms of tag_family_to_string.
get_supported_families_mut ==
    << <<"tag16h5", "Tag16H5">>,
       <<"tag36h11", "Tag36H11">>,
       <<"tag36h10", "Tag36H10">>,
       <<"tag25h9", "Tag25H9">>,
       <<"tagCircle21h7", "TagCircle21H7">>,
       <<"tagCircle49h12", "TagCircle49H12">>,
       <<"tagCustom48h12", "TagCustom48H12">>,
       <<"tagStandard41h12", "TagStandard41H12">>,
       <<"tagStandard52h13", "TagStandard52H13">> >>

get_supported_families ==
    << <<"tag36h11", "Tag36H11">>,
       <<"tag36h10", "Tag36H10">>,
       <<"tag25h9", "Tag25H9">>,
       <<"tag16h5", "Tag16H5">>,
       <<"tagCircle21h7", "TagCircle21H7">>,
       <<"tagCircle49h12", "TagCircle49H12">>,
       <<"tagCustom48h12", "TagCustom48H12">>,
       <<"tagStandard41h12", "TagStandard41H12">>,
       <<"tagStandard52h13", "TagStandard52H13">> >>

families == get_supported_families

\* families.iter().map(|(name, _)| name.clone()).collect()
manifest_of(fams) ==
    [kind |-> "manifest",
     supported_families |-> [i \in 1..Len(fams) |-> fams[i][1]]]

(***************************************************************************)
(* The decoder's raw detections and their conversion.                      *)
(***************************************************************************)
\* The tag ids the decoder emits, in emission order.
EmissionIds == <<5, 3>>

\* quad.corners of a raw detection: bottom-left, bottom-right, top-right,
\* top-left.
quad_of(id) ==
    << [x |-> 10 + id, y |-> 90 + id], [x |-> 90 + id, y |-> 90 + id],
       [x |-> 90 + id, y |-> 10 + id], [x |-> 10 + id, y |-> 10 + id] >>

\* What decoder.decode() can emit for a decoder configured with one family.
RawList(kind, n) ==
    [i \in 1..n |-> [id |-> EmissionIds[i], tag_family_kind |-> kind,
                     quad |-> quad_of(EmissionIds[i])]]

\* The families whose tags are printed in the pictures of Candidates; a
\* decoder for any other family finds nothing in them.
PresentKinds == {"Tag36H11", "Tag16H5", "TagStandard52H13"}

RawLists(kind, budget) ==
    IF kind \in PresentKinds
      THEN { RawList(kind, n) :
               n \in { m \in 0..Len(EmissionIds) : m <= budget } }
      ELSE { RawList(kind, 0) }

\* The outcomes of building a decoder for one family and decoding with it:
\* AprilTagDecoder::new fails, decode fails, or decode emits detections.
DecodeOutcomes(kind, budget) ==
    { [status |-> "new", dets |-> <<>>], [status |-> "decode", dets |-> <<>>] }
    \cup { [status |-> "ok", dets |-> s] : s \in RawLists(kind, budget) }

\* A mutation of convert_corners: the corners listed from the top-left.
convert_corners_mut(quad) ==
    << [x |-> quad[4].x, y |-> quad[4].y], [x |-> quad[1].x, y |-> quad[1].y],
       [x |-> quad[2].x, y |-> quad[2].y], [x |-> quad[3].x, y |-> quad[3].y] >>

\* let corners = vec![Corner{corners[0]}, .. Corner{corners[3]}]
convert_corners(quad) ==
    << [x |-> quad[1].x, y |-> quad[1].y], [x |-> quad[2].x, y |-> quad[2].y],
       [x |-> quad[3].x, y |-> quad[3].y], [x |-> quad[4].x, y |-> quad[4].y] >>

convert_detection(det) ==
    [tag_id     |-> det.id,
     tag_family |-> tag_family_to_string(det.tag_family_kind),
     corners    |-> convert_corners(det.quad)]

\* for det in detections { ... push(Detection {..}) }
convert_detections(dets) ==
    [i \in 1..Len(dets) |-> convert_detection(dets[i])]

\* A mutation of extend: the new family's detections are put in front.
extend_mut(all, dets) == dets \o all

\* all_detections.push(..) per detection / Vec::extend
extend(all, dets) == all \o dets

(***************************************************************************)
(* The `?` operator and the early exits of main.                           *)
(***************************************************************************)
\* A mutation of input_check: the existence test is missing.
input_check_mut(exists) == "create_dir"

\* if !input_path.exists() { bail!(..) }, then fs::create_dir_all.
input_check(exists) == IF exists THEN "create_dir" ELSE "bail"

\* A mutation of write_checked: the Result of fs::write is dropped.
write_checked_mut(ok) == TRUE

\* fs::write(&output_file, json).context(..)?  continues only on Ok.
write_checked(ok) == ok

(***************************************************************************)
(* State.                                                                  *)
(***************************************************************************)
VARIABLES
    args,                 \* std::env::args(): program name, then the tokens
    arg_i,                \* position of the argument loop (1-based)
    input_dir,            \* Option<String>: <<>> is None, <<s>> is Some(s)
    output_dir,           \* Option<String>, likewise
    variant,              \* which of the three programs runs
    inputExists,          \* input_path.exists()
    dir,                  \* the input directory, in enumeration order
    pc,                   \* position in main
    exit_code,            \* -1 while running, then the exit status
    failure,              \* the error main returned, "none" if none
    outDirCreated,        \* fs::create_dir_all(output_path) succeeded
    idx,                  \* position of the fs::read_dir iterator
    image_paths,          \* centred, linefit: the collected paths
    img_size,             \* centred: size of the first image
    img_i,                \* centred, linefit: position in image_paths
    cur_path,             \* v0110, linefit: the path given to process_image
    fam,                  \* position in the families loop
    img_gray,             \* the grayscale buffer of the current image
    detections,           \* the Vec the last decoder.decode() returned
    all_detections,       \* process_image: detections of the current image
    all_image_detections, \* centred: HashMap path -> detections
    load_ms,              \* linefit: load_duration in ms
    total_detection_ms,   \* linefit: the accumulator of process_image
    family_timings,       \* linefit: Vec<FamilyTiming> of the current image
    processed_count,      \* images written so far
    printed,              \* N of the "Processed N images" line, -1 if none
    outFiles,             \* the output directory: file name -> content
    ticks_left,           \* environment: clock ticks (ms) still to elapse
    loads,                \* history: the files handed to the image reader
    rawOut,               \* history: what each decode call emitted
    calls,                \* history: the decoder constructions and decodes
    writes,               \* history: the successful fs::write calls
    emitted,              \* history: number of raw detections emitted
    writesOk,             \* history: number of result writes that succeeded
    run,                  \* 1 in the first run, 2 in a repeated run
    firstOut,             \* the output directory the first run left
    firstCalls            \* the decoder calls of the first run

argvars == << args, arg_i, input_dir, output_dir >>

timevars == << load_ms, total_detection_ms, family_timings, ticks_left >>

runvars == << run, firstOut, firstCalls >>

vars ==
    << argvars, variant, inputExists, dir, pc, exit_code, failure,
       outDirCreated, idx, image_paths, img_size, img_i, cur_path, fam,
       img_gray, detections, all_detections, all_image_detections, timevars,
       processed_count, printed, outFiles, loads, rawOut, calls, writes,
       emitted, writesOk, runvars >>

Variants == {"v0110", "centred", "linefit"}

NoImage == [name |-> <<>>, dims |-> <<0, 0>>]

\* The locals of main and the histories before main has done anything.
InitLocals ==
    /\ exit_code = -1
    /\ failure = "none"
    /\ outDirCreated = FALSE
    /\ idx = 1
    /\ image_paths = <<>>
    /\ img_size = <<0, 0>>
    /\ img_i = 1
    /\ cur_path = <<>>
    /\ fam = 1
    /\ img_gray = NoImage
    /\ all_detections = <<>>
    /\ all_image_detections = <<>>
    /\ load_ms = 0
    /\ total_detection_ms = 0
    /\ family_timings = <<>>
    /\ processed_count = 0
    /\ printed = -1
    /\ outFiles = <<>>
    /\ loads = <<>>
    /\ rawOut = {}
    /\ calls = <<>>
    /\ writes = <<>>
    /\ emitted = 0
    /\ writesOk = 0

\* A first run, nothing left over from an earlier one.
InitFirstRun ==
    /\ run = 1
    /\ firstOut = <<>>
    /\ firstCalls = <<>>

\* The arguments `--input in --output out`, parsed.
InitParsed ==
    /\ args = <<"prog", "--input", "in", "--output", "out">>
    /\ arg_i = 6
    /\ input_dir = <<"in">>
    /\ output_dir = <<"out">>
    /\ pc = "check_input"

\* A run with well-formed arguments, on any directory, on a clock that
\* stands still.
Init ==
    /\ variant \in Variants
    /\ inputExists \in BOOLEAN
    /\ dir \in (IF inputExists THEN DirListings ELSE {<<>>})
    /\ ticks_left = 0
    /\ detections = <<>>
    /\ InitParsed
    /\ InitLocals
    /\ InitFirstRun

\* A mutation of Abort: the error is reported and main goes on to its
\* closing statements instead of returning.
Abort_mut(cause) ==
    /\ pc' = "print"
    /\ exit_code' = exit_code
    /\ failure' = cause

\* main returns Err(cause): the process exits with status 1.
Abort(cause) ==
    /\ pc' = "done"
    /\ exit_code' = 1
    /\ failure' = cause

\* The entry of dir with the given name.
entry_of(name) == CHOOSE e \in Candidates : e.name = name

\* HashMap::entry(k).or_insert_with(Vec::new).extend(v) / fs::write.
put(m, k, v) == (k :> v) @@ m

(***************************************************************************)
(* main: the command line.                                                 *)
(***************************************************************************)
\* A mutation of usage_error: --help and -h are not looked for.
usage_error_mut(a) == Len(a) < 3

\* args.len() < 3 || args.iter().any(|a| a == "--help" || a == "-h")
usage_error(a) ==
    \/ Len(a) < 3
    \/ \E i \in 1..Len(a) : a[i] = "--help" \/ a[i] = "-h"

\* if usage_error { eprintln!(..); std::process::exit(1) }; let mut i = 1
CheckUsage ==
    /\ pc = "usage"
    /\ IF usage_error(args)
         THEN /\ pc' = "done"
              /\ exit_code' = 1
              /\ failure' = "usage"
              /\ UNCHANGED arg_i
         ELSE /\ pc' = "parse"
              /\ arg_i' = 2
              /\ UNCHANGED <<exit_code, failure>>
    /\ UNCHANGED detections
    /\ UNCHANGED << args, input_dir, output_dir, variant, inputExists, dir,
                    outDirCreated, idx, image_paths, img_size, img_i, cur_path,
                    fam, img_gray, all_detections, all_image_detections,
                    timevars, processed_count, printed, outFiles, loads,
                    rawOut, calls, writes, emitted, writesOk, runvars >>

\* One turn of `while i < args.len() { match args[i].as_str() {..} }`.
ParseArg ==
    /\ pc = "parse"
    /\ IF arg_i > Len(args)
         THEN /\ pc' = "require"
              /\ UNCHANGED <<arg_i, input_dir, output_dir, exit_code, failure>>
         ELSE IF args[arg_i] = "--input"
           THEN IF arg_i + 1 <= Len(args)
                  THEN /\ input_dir' = <<args[arg_i + 1]>>
                       /\ arg_i' = arg_i + 2
                       /\ UNCHANGED <<pc, output_dir, exit_code, failure>>
                  ELSE /\ Abort("input_requires_value")
                       /\ UNCHANGED <<arg_i, input_dir, output_dir>>
         ELSE IF args[arg_i] = "--output"
           THEN IF arg_i + 1 <= Len(args)
                  THEN /\ output_dir' = <<args[arg_i + 1]>>
                       /\ arg_i' = arg_i + 2
                       /\ UNCHANGED <<pc, input_dir, exit_code, failure>>
                  ELSE /\ Abort("output_requires_value")
                       /\ UNCHANGED <<arg_i, input_dir, output_dir>>
         ELSE /\ Abort("unknown_argument")
              /\ UNCHANGED <<arg_i, input_dir, output_dir>>
    /\ UNCHANGED detections
    /\ UNCHANGED << args, variant, inputExists, dir, outDirCreated, idx,
                    image_paths, img_size, img_i, cur_path, fam, img_gray,
                    all_detections, all_image_detections, timevars,
                    processed_count, printed, outFiles, loads, rawOut, calls,
                    writes, emitted, writesOk, runvars >>

\* input_dir.context("--input is required")?; output_dir.context(..)?
RequireFlags ==
    /\ pc = "require"
    /\ IF input_dir = <<>>
         THEN Abort("input_required")
         ELSE IF output_dir = <<>>
           THEN Abort("output_required")
           ELSE pc' = "check_input" /\ UNCHANGED <<exit_code, failure>>
    /\ UNCHANGED detections
    /\ UNCHANGED << argvars, variant, inputExists, dir, outDirCreated, idx,
                    image_paths, img_size, img_i, cur_path, fam, img_gray,
                    all_detections, all_image_detections, timevars,
                    processed_count, printed, outFiles, loads, rawOut, calls,
                    writes, emitted, writesOk, runvars >>

(***************************************************************************)
(* main, common to the three programs.                                     *)
(***************************************************************************)
\* if !input_path.exists() { anyhow::bail!(..) }
CheckInputExists ==
    /\ pc = "check_input"
    /\ IF input_check(inputExists) = "bail"
         THEN Abort("input_missing")
         ELSE pc' = "create_dir" /\ UNCHANGED <<exit_code, failure>>
    /\ UNCHANGED detections
    /\ UNCHANGED << argvars, variant, inputExists, dir, outDirCreated, idx,
                    image_paths, img_size, img_i, cur_path, fam, img_gray,
                    all_detections, all_image_detections, timevars,
                    processed_count, printed, outFiles, loads, rawOut, calls,
                    writes, emitted, writesOk, runvars >>

\* fs::create_dir_all(output_path).context(..)?
CreateOutputDir ==
    /\ pc = "create_dir"
    /\ \E ok \in BOOLEAN :
         IF ok
           THEN /\ outDirCreated' = TRUE
                /\ pc' = "read_dir"
                /\ UNCHANGED <<exit_code, failure>>
           ELSE /\ Abort("create_dir")
                /\ UNCHANGED outDirCreated
    /\ UNCHANGED detections
    /\ UNCHANGED << argvars, variant, inputExists, dir, idx, image_paths,
                    img_size, img_i, cur_path, fam, img_gray, all_detections,
                    all_image_detections, timevars, processed_count, printed,
                    outFiles, loads, rawOut, calls, writes, emitted, writesOk,
                    runvars >>

\* fs::read_dir(input_path)?  fails on a missing path (and may fail on an
\* existing one, e.g. a path that is no directory).
ReadDir ==
    /\ pc = "read_dir"
    /\ \E ok \in BOOLEAN :
         IF ok /\ inputExists
           THEN pc' = "enumerate" /\ UNCHANGED <<exit_code, failure>>
           ELSE Abort("read_dir")
    /\ UNCHANGED detections
    /\ UNCHANGED << argvars, variant, inputExists, dir, outDirCreated, idx,
                    image_paths, img_size, img_i, cur_path, fam, img_gray,
                    all_detections, all_image_detections, timevars,
                    processed_count, printed, outFiles, loads, rawOut, calls,
                    writes, emitted, writesOk, runvars >>

\* println!("Processed {} images", processed_count)
PrintProcessed ==
    /\ pc = "print"
    /\ printed' = processed_count
    /\ pc' = "manifest"
    /\ UNCHANGED detections
    /\ UNCHANGED << argvars, variant, inputExists, dir, exit_code, failure,
                    outDirCreated, idx, image_paths, img_size, img_i, cur_path,
                    fam, img_gray, all_detections, all_image_detections,
                    timevars, processed_count, outFiles, loads, rawOut, calls,
                    writes, emitted, writesOk, runvars >>

\* fs::write(&manifest_path, manifest_json).context(..)?; Ok(())
WriteManifest ==
    /\ pc = "manifest"
    /\ \E ok \in BOOLEAN :
         IF ok
           THEN /\ outFiles' = put(outFiles, manifest_path, manifest_of(families))
                /\ writes' = Append(writes, [kind |-> "manifest",
                                             path |-> manifest_path,
                                             image |-> <<>>])
                /\ pc' = "done"
                /\ exit_code' = 0
                /\ UNCHANGED failure
           ELSE /\ Abort("write_manifest")
                /\ UNCHANGED <<outFiles, writes>>
    /\ UNCHANGED detections
    /\ UNCHANGED << argvars, variant, inputExists, dir, outDirCreated, idx,
                    image_paths, img_size, img_i, cur_path, fam, img_gray,
                    all_detections, all_image_detections, timevars,
                    processed_count, printed, loads, rawOut, calls, emitted,
                    writesOk, runvars >>

(***************************************************************************)
(* The directory scan.                                                     *)
(***************************************************************************)
\* v0110: one turn of `for entry in fs::read_dir(input_path)?` up to the call
\* of process_image; the loop ends at the println.
NextEntry ==
    /\ pc = "enumerate"
    /\ variant = "v0110"
    /\ IF idx > Len(dir)
         THEN /\ pc' = "print"
              /\ UNCHANGED <<exit_code, failure, idx, cur_path>>
         ELSE \E ok \in BOOLEAN :
                IF ~ok
                  THEN Abort("read_dir_entry") /\ UNCHANGED <<idx, cur_path>>
                  ELSE IF is_image(variant, dir[idx])
                         THEN /\ cur_path' = dir[idx].name
                              /\ pc' = "load"
                              /\ UNCHANGED <<exit_code, failure, idx>>
                         ELSE /\ idx' = idx + 1
                              /\ UNCHANGED <<pc, exit_code, failure, cur_path>>
    /\ UNCHANGED detections
    /\ UNCHANGED << argvars, variant, inputExists, dir, outDirCreated,
                    image_paths, img_size, img_i, fam, img_gray,
                    all_detections, all_image_detections, timevars,
                    processed_count, printed, outFiles, loads, rawOut, calls,
                    writes, emitted, writesOk, runvars >>

\* centred, linefit: one turn of the loop that fills image_paths.
CollectEntry ==
    /\ pc = "enumerate"
    /\ variant \in {"centred", "linefit"}
    /\ IF idx > Len(dir)
         THEN /\ pc' = "check_empty"
              /\ UNCHANGED <<exit_code, failure, idx, image_paths>>
         ELSE \E ok \in BOOLEAN :
                IF ~ok
                  THEN Abort("read_dir_entry") /\ UNCHANGED <<idx, image_paths>>
                  ELSE /\ idx' = idx + 1
                       /\ image_paths' =
                            IF is_image(variant, dir[idx])
                              THEN Append(image_paths, dir[idx].name)
                              ELSE image_paths
                       /\ UNCHANGED <<pc, exit_code, failure>>
    /\ UNCHANGED detections
    /\ UNCHANGED << argvars, variant, inputExists, dir, outDirCreated,
                    img_size, img_i, cur_path, fam, img_gray, all_detections,
                    all_image_detections, timevars, processed_count, printed,
                    outFiles, loads, rawOut, calls, writes, emitted, writesOk,
                    runvars >>

\* centred, linefit: if image_paths.is_empty() { println!(..); return Ok(()) }
CheckEmpty ==
    /\ pc = "check_empty"
    /\ IF image_paths = <<>>
         THEN /\ pc' = "done"
              /\ exit_code' = 0
              /\ UNCHANGED cur_path
         ELSE /\ pc' = IF variant = "centred" THEN "first_img" ELSE "load"
              /\ cur_path' = IF variant = "linefit" THEN image_paths[1]
                             ELSE cur_path
              /\ UNCHANGED exit_code
    /\ UNCHANGED detections
    /\ UNCHANGED << argvars, variant, inputExists, dir, failure,
                    outDirCreated, idx, image_paths, img_size, img_i, fam,
                    img_gray, all_detections, all_image_detections, timevars,
                    processed_count, printed, outFiles, loads, rawOut, calls,
                    writes, emitted, writesOk, runvars >>

(***************************************************************************)
(* The environment of the detection loops: the clock and the decoder.      *)
(***************************************************************************)
\* What Instant::elapsed() can report, in whole ms, for one measured phase;
\* only linefit measures.
Durations(v, t) == IF v = "linefit" /\ t > 0 THEN {0, 1} ELSE {0}

\* The decoder is a function of the picture, the family and the size it was
\* built with: what the first run saw it do for these, if it was asked.
recorded(image, k, size) ==
    { [status |-> firstCalls[i].status, dets |-> firstCalls[i].dets] :
        i \in { j \in 1..Len(firstCalls) :
                  /\ firstCalls[j].image = image
                  /\ firstCalls[j].fam = k
                  /\ firstCalls[j].size = size } }

\* The raw detections the decoder may still emit in this run.
budget == IF emitted < MaxDetections THEN MaxDetections - emitted ELSE 0

\* The outcomes of one decoder construction and decode in the current state:
\* in a repeated run the decoder does again what it did in the first run.
Outcomes(image, k, size) ==
    IF recorded(image, k, size) # {}
      THEN recorded(image, k, size)
      ELSE DecodeOutcomes(families[k][2], budget)

\* A mutation of next_family: the loop steps over every other family.
next_family_mut(k) == k + 2

\* The step of `for (family_name, family_kind) in families`.
next_family(k) == k + 1

\* A mutation of add_timing: the initialization time is left out.
add_timing_mut(total, init, det) == total + det

\* total_detection_ms += initialization_ms + detection_ms
add_timing(total, init, det) == total + (init + det)

(***************************************************************************)
(* v0110 and linefit: process_image and the write that follows it.         *)
(***************************************************************************)
\* process_image up to the families loop: read the file, convert to gray
\* (linefit: timed), empty accumulators.
LoadImage ==
    /\ pc = "load"
    /\ loads' = Append(loads, cur_path)
    /\ \E ok \in BOOLEAN, d \in Durations(variant, ticks_left) :
         IF ok
           THEN /\ img_gray' = [name |-> cur_path,
                                dims |-> entry_of(cur_path).dims]
                /\ all_detections' = <<>>
                /\ fam' = 1
                /\ IF variant = "linefit"
                     THEN /\ load_ms' = d
                          /\ ticks_left' = ticks_left - d
                          /\ total_detection_ms' = 0
                          /\ family_timings' = <<>>
                     ELSE UNCHANGED timevars
                /\ pc' = "family"
                /\ UNCHANGED <<exit_code, failure>>
           ELSE /\ Abort("load")
                /\ UNCHANGED <<img_gray, all_detections, fam, timevars>>
    /\ UNCHANGED detections
    /\ UNCHANGED << argvars, variant, inputExists, dir, outDirCreated, idx,
                    image_paths, img_size, img_i, cur_path,
                    all_image_detections, processed_count, printed, outFiles,
                    rawOut, calls, writes, emitted, writesOk, runvars >>

\* One turn of `for (family_name, family_kind) in families`: build a decoder
\* for the family and the size of the image, decode (linefit: both timed),
\* convert and collect; after the last family process_image returns
\* Ok(DetectionResult).
DetectFamily ==
    /\ pc = "family"
    /\ \E out \in Outcomes(cur_path, fam, img_gray.dims),
          di \in Durations(variant, ticks_left) :
       \E dd \in Durations(variant, ticks_left - di) :
         /\ calls' = Append(calls, [image |-> cur_path, fam |-> fam,
                                    size |-> img_gray.dims,
                                    status |-> out.status, dets |-> out.dets])
         /\ detections' = IF out.status = "ok" THEN out.dets ELSE detections
         /\ IF out.status # "ok"
              THEN /\ Abort(out.status)
                   /\ UNCHANGED <<all_detections, fam, rawOut, emitted,
                                  timevars>>
              ELSE /\ all_detections' =
                        extend(all_detections, convert_detections(detections'))
                   /\ rawOut' = rawOut \cup
                        {[image |-> cur_path, fam |-> fam, dets |-> out.dets]}
                   /\ emitted' = emitted + Len(out.dets)
                   /\ IF variant = "linefit"
                        THEN /\ total_detection_ms' =
                                  add_timing(total_detection_ms, di, dd)
                             /\ family_timings' =
                                  Append(family_timings,
                                         [family |-> families[fam][1],
                                          initialization_ms |-> di,
                                          detection_ms |-> dd])
                             /\ ticks_left' = ticks_left - di - dd
                             /\ UNCHANGED load_ms
                        ELSE UNCHANGED timevars
                   /\ IF fam < Len(families)
                        THEN fam' = next_family(fam) /\ pc' = pc
                        ELSE fam' = fam /\ pc' = "write"
                   /\ UNCHANGED <<exit_code, failure>>
    /\ UNCHANGED << argvars, variant, inputExists, dir, outDirCreated, idx,
                    image_paths, img_size, img_i, cur_path, img_gray,
                    all_image_detections, processed_count, printed, outFiles,
                    loads, writes, writesOk, runvars >>

\* The DetectionResult process_image returned, as serialized.
result_of(v, name, dets, lms, total, fts) ==
    IF v = "linefit"
      THEN [kind |-> "result", image |-> name, detections |-> dets,
            timings |-> [image_load_ms |-> lms,
                         total_detection_ms |-> total,
                         family_timings |-> fts]]
      ELSE [kind |-> "result", image |-> name, detections |-> dets]

\* fs::write(&output_file, json).context(..)?; processed_count += 1; the
\* image buffer went out of scope when process_image returned.
WriteResult ==
    /\ pc = "write"
    /\ variant \in {"v0110", "linefit"}
    /\ \E ok \in BOOLEAN :
         IF write_checked(ok)
           THEN /\ outFiles' =
                     IF ok
                       THEN put(outFiles, output_file(cur_path),
                                result_of(variant, cur_path, all_detections,
                                          load_ms, total_detection_ms,
                                          family_timings))
                       ELSE outFiles
                /\ writes' =
                     IF ok
                       THEN Append(writes, [kind |-> "result",
                                            path |-> output_file(cur_path),
                                            image |-> cur_path])
                       ELSE writes
                /\ writesOk' = IF ok THEN writesOk + 1 ELSE writesOk
                /\ processed_count' = processed_count + 1
                /\ img_gray' = NoImage
                /\ IF variant = "v0110"
                     THEN /\ idx' = idx + 1
                          /\ pc' = "enumerate"
                          /\ UNCHANGED <<img_i, cur_path>>
                     ELSE /\ img_i' = img_i + 1
                          /\ UNCHANGED idx
                          /\ IF img_i < Len(image_paths)
                               THEN /\ cur_path' = image_paths[img_i + 1]
                                    /\ pc' = "load"
                               ELSE /\ cur_path' = cur_path
                                    /\ pc' = "print"
                /\ UNCHANGED <<exit_code, failure>>
           ELSE /\ Abort("write_result")
                /\ UNCHANGED <<outFiles, writes, writesOk, processed_count,
                               img_gray, idx, img_i, cur_path>>
    /\ UNCHANGED detections
    /\ UNCHANGED << argvars, variant, inputExists, dir, outDirCreated,
                    image_paths, img_size, fam, all_detections,
                    all_image_detections, timevars, printed, loads, rawOut,
                    calls, emitted, runvars >>

(***************************************************************************)
(* centred: detect everything first, write afterwards.                     *)
(***************************************************************************)
\* let first_img = read_image_jpeg_rgb8(&image_paths[0]).context(..)?
LoadFirstImage ==
    /\ pc = "first_img"
    /\ loads' = Append(loads, image_paths[1])
    /\ \E ok \in BOOLEAN :
         IF ok
           THEN /\ img_size' = entry_of(image_paths[1]).dims
                /\ img_i' = 1
                /\ fam' = 1
                /\ pc' = "detect"
                /\ UNCHANGED <<exit_code, failure>>
           ELSE /\ Abort("load")
                /\ UNCHANGED <<img_size, img_i, fam>>
    /\ UNCHANGED detections
    /\ UNCHANGED << argvars, variant, inputExists, dir, outDirCreated, idx,
                    image_paths, cur_path, img_gray, all_detections,
                    all_image_detections, timevars, processed_count, printed,
                    outFiles, rawOut, calls, writes, emitted, writesOk,
                    runvars >>

\* One call detect_in_image(image_path, family_kind, img_size)? of the nested
\* loops: read the file again, build a decoder of size img_size, decode,
\* convert; then the extend of the image's HashMap entry.
DetectInImage ==
    /\ pc = "detect"
    /\ loads' = Append(loads, image_paths[img_i])
    /\ \E out \in {[status |-> "load", dets |-> <<>>]} \cup
                  Outcomes(image_paths[img_i], fam, img_size) :
         /\ calls' = IF out.status = "load" THEN calls
                     ELSE Append(calls, [image |-> image_paths[img_i],
                                         fam |-> fam, size |-> img_size,
                                         status |-> out.status,
                                         dets |-> out.dets])
         /\ detections' = IF out.status = "ok" THEN out.dets ELSE detections
         /\ IF out.status # "ok"
              THEN /\ Abort(out.status)
                   /\ UNCHANGED <<all_image_detections, fam, img_i, rawOut,
                                  emitted>>
              ELSE /\ all_image_detections' =
                        put(all_image_detections, image_paths[img_i],
                            extend(IF image_paths[img_i] \in
                                        DOMAIN all_image_detections
                                     THEN all_image_detections[image_paths[img_i]]
                                     ELSE <<>>,
                                   convert_detections(detections')))
                   /\ rawOut' = rawOut \cup
                        {[image |-> image_paths[img_i], fam |-> fam,
                          dets |-> out.dets]}
                   /\ emitted' = emitted + Len(out.dets)
                   /\ IF fam < Len(families)
                        THEN fam' = next_family(fam) /\ img_i' = img_i
                             /\ pc' = pc
                        ELSE /\ fam' = 1
                             /\ IF img_i < Len(image_paths)
                                  THEN img_i' = img_i + 1 /\ pc' = pc
                                  ELSE img_i' = 1 /\ pc' = "write"
                   /\ UNCHANGED <<exit_code, failure>>
    /\ UNCHANGED << argvars, variant, inputExists, dir, outDirCreated, idx,
                    image_paths, img_size, cur_path, img_gray, all_detections,
                    timevars, processed_count, printed, outFiles, writes,
                    writesOk, runvars >>

\* One turn of `for path in &image_paths` of the write loop.
WriteCollected ==
    /\ pc = "write"
    /\ variant = "centred"
    /\ \E ok \in BOOLEAN :
         IF write_checked(ok)
           THEN /\ outFiles' =
                     IF ok
                       THEN put(outFiles, output_file(image_paths[img_i]),
                                [kind |-> "result",
                                 image |-> image_paths[img_i],
                                 detections |->
                                   IF image_paths[img_i] \in
                                        DOMAIN all_image_detections
                                     THEN all_image_detections[image_paths[img_i]]
                                     ELSE <<>>])
                       ELSE outFiles
                /\ writes' =
                     IF ok
                       THEN Append(writes,
                                   [kind |-> "result",
                                    path |-> output_file(image_paths[img_i]),
                                    image |-> image_paths[img_i]])
                       ELSE writes
                /\ writesOk' = IF ok THEN writesOk + 1 ELSE writesOk
                /\ processed_count' = processed_count + 1
                /\ img_i' = img_i + 1
                /\ pc' = IF img_i < Len(image_paths) THEN pc ELSE "print"
                /\ UNCHANGED <<exit_code, failure>>
           ELSE /\ Abort("write_result")
                /\ UNCHANGED <<outFiles, writes, writesOk, processed_count,
                               img_i>>
    /\ UNCHANGED detections
    /\ UNCHANGED << argvars, variant, inputExists, dir, outDirCreated, idx,
                    image_paths, img_size, cur_path, fam, img_gray,
                    all_detections, all_image_detections, timevars, printed,
                    loads, rawOut, calls, emitted, runvars >>

(***************************************************************************)
(* Specification: one run with well-formed arguments.                      *)
(***************************************************************************)
Next ==
    \/ CheckInputExists
    \/ CreateOutputDir
    \/ ReadDir
    \/ NextEntry
    \/ CollectEntry
    \/ CheckEmpty
    \/ LoadImage
    \/ DetectFamily
    \/ WriteResult
    \/ LoadFirstImage
    \/ DetectInImage
    \/ WriteCollected
    \/ PrintProcessed
    \/ WriteManifest

Spec == Init /\ [][Next]_vars

(***************************************************************************)
(* Specification: the conversion of raw detections on its own, over every  *)
(* selector a raw detection can carry.                                     *)
(***************************************************************************)
\* The variants of TagFamilyKind, as the exhaustive match of
\* tag_family_to_string lists them; "Custom" stands for Custom(_).
TagFamilyKinds ==
    { "Tag16H5", "Tag36H11", "Tag36H10", "Tag25H9", "TagCircle21H7",
      "TagCircle49H12", "TagCustom48H12", "TagStandard41H12",
      "TagStandard52H13", "Custom" }

\* The lists of raw detections the conversion loop can be handed.
RawInputs ==
    LET dets == { [id |-> EmissionIds[i], tag_family_kind |-> k,
                   quad |-> quad_of(EmissionIds[i])] :
                    i \in 1..Len(EmissionIds), k \in TagFamilyKinds }
    IN  UNION { [1..n -> dets] : n \in 0..MaxRawLen }

InitConvert ==
    /\ variant \in Variants
    /\ inputExists = TRUE
    /\ dir = <<>>
    /\ ticks_left = 0
    /\ detections \in RawInputs
    /\ args = <<"prog", "--input", "in", "--output", "out">>
    /\ arg_i = 6
    /\ input_dir = <<"in">>
    /\ output_dir = <<"out">>
    /\ pc = "convert"
    /\ InitLocals
    /\ InitFirstRun

\* for det in detections { .. all_detections.push(Detection {..}) }
ConvertDetections ==
    /\ pc = "convert"
    /\ all_detections' = extend(all_detections, convert_detections(detections))
    /\ pc' = "converted"
    /\ UNCHANGED << argvars, variant, inputExists, dir, exit_code, failure,
                    outDirCreated, idx, image_paths, img_size, img_i, cur_path,
                    fam, img_gray, detections, all_image_detections, timevars,
                    processed_count, printed, outFiles, loads, rawOut, calls,
                    writes, emitted, writesOk, runvars >>

NextConvert == ConvertDetections

SpecConvert == InitConvert /\ [][NextConvert]_vars

(***************************************************************************)
(* Specification: one run from the command line on.                        *)
(***************************************************************************)
\* The tokens command lines are made of.
Tokens == {"--input", "--output", "--help", "-h", "--foo", "in"}

\* std::env::args(): the program name and at most MaxArgs tokens.
ArgVectors ==
    { <<"prog">> \o t : t \in UNION { [1..n -> Tokens] : n \in 0..MaxArgs } }

\* The input directories of the runs started from the command line.
ArgsDirs == { s \in DirListings : Len(s) = 0 \/ (Len(s) = 1 /\ s[1].name = a_jpg) }

InitArgs ==
    /\ variant \in Variants
    /\ inputExists \in BOOLEAN
    /\ dir \in (IF inputExists THEN ArgsDirs ELSE {<<>>})
    /\ ticks_left = 0
    /\ detections = <<>>
    /\ args \in ArgVectors
    /\ arg_i = 1
    /\ input_dir = <<>>
    /\ output_dir = <<>>
    /\ pc = "usage"
    /\ InitLocals
    /\ InitFirstRun

NextArgs ==
    \/ CheckUsage
    \/ ParseArg
    \/ RequireFlags
    \/ Next

SpecArgs == InitArgs /\ [][NextArgs]_vars

(***************************************************************************)
(* Specification: the same directory processed twice.                      *)
(***************************************************************************)
\* The orders in which read_dir may list the entries of a directory.
Orders(d) ==
    { [i \in 1..Len(d) |-> d[p[i]]] :
        p \in { q \in [1..Len(d) -> 1..Len(d)] :
                  \A i, j \in 1..Len(d) : q[i] = q[j] => i = j } }

\* After a run that exited 0 the program is started again on the same input
\* directory, listed in any order, with the same arguments and an output
\* directory that does not exist yet; the first run's output and decoder
\* calls are kept for comparison.
Rerun ==
    /\ pc = "done"
    /\ exit_code = 0
    /\ run = 1
    /\ run' = 2
    /\ firstOut' = outFiles
    /\ firstCalls' = calls
    /\ dir' \in Orders(dir)
    /\ pc' = "check_input"
    /\ exit_code' = -1
    /\ failure' = "none"
    /\ outDirCreated' = FALSE
    /\ idx' = 1
    /\ image_paths' = <<>>
    /\ img_size' = <<0, 0>>
    /\ img_i' = 1
    /\ cur_path' = <<>>
    /\ fam' = 1
    /\ img_gray' = NoImage
    /\ detections' = <<>>
    /\ all_detections' = <<>>
    /\ all_image_detections' = <<>>
    /\ load_ms' = 0
    /\ total_detection_ms' = 0
    /\ family_timings' = <<>>
    /\ processed_count' = 0
    /\ printed' = -1
    /\ outFiles' = <<>>
    /\ loads' = <<>>
    /\ rawOut' = {}
    /\ calls' = <<>>
    /\ writes' = <<>>
    /\ emitted' = 0
    /\ writesOk' = 0
    /\ UNCHANGED << argvars, variant, inputExists, ticks_left >>

NextTwoRuns ==
    \/ Next
    \/ Rerun

SpecTwoRuns == Init /\ [][NextTwoRuns]_vars

(***************************************************************************)
(* Specification: the instrumented variant on a running clock.             *)
(***************************************************************************)
\* Directories of at most one file, a JPEG, the format linefit can load.
TimingDirs ==
    { s \in DirListings :
        /\ Len(s) <= 1
        /\ \A i \in 1..Len(s) : s[i].name \in {a_jpg, manifest_JPEG} }

InitTiming ==
    /\ variant = "linefit"
    /\ inputExists = TRUE
    /\ dir \in TimingDirs
    /\ ticks_left = MaxTicks
    /\ detections = <<>>
    /\ InitParsed
    /\ InitLocals
    /\ InitFirstRun

\* main of linefit.
NextTiming ==
    \/ CheckInputExists
    \/ CreateOutputDir
    \/ ReadDir
    \/ CollectEntry
    \/ CheckEmpty
    \/ LoadImage
    \/ DetectFamily
    \/ WriteResult
    \/ PrintProcessed
    \/ WriteManifest

SpecTiming == InitTiming /\ [][NextTiming]_vars

(***************************************************************************)
(* Specification: one run whose every call returns.                        *)
(***************************************************************************)
\* main is a single thread and every library call it makes returns, with a
\* value or an error: whenever a statement of main can be executed, one is.
SpecLive == Init /\ [][Next]_vars /\ WF_vars(Next)

(***************************************************************************)
(* Vocabulary of the properties.  These are stated from the documents, not *)
(* through the operators of the model above.                               *)
(***************************************************************************)
\* The names of the Family Registry in its fixed order.
RegistryNames ==
    << "tag36h11", "tag36h10", "tag25h9", "tag16h5", "tagCircle21h7",
       "tagCircle49h12", "tagCustom48h12", "tagStandard41h12",
       "tagStandard52h13" >>

\* The candidate names that are image files for a variant: extension in
\* {jpg, jpeg, png} whatever its case, {jpg, jpeg} in linefit.
AcceptedNames(v) ==
    IF v = "linefit" THEN {a_jpg, a_jpeg, manifest_JPEG}
    ELSE {a_jpg, a_png, a_jpeg, manifest_JPEG}

\* The accepted files of the input directory of this run.
AcceptedInDir ==
    { dir[i].name : i \in { j \in 1..Len(dir) : dir[j].is_file } }
      \cap AcceptedNames(variant)

\* The per-image result files and the manifest present in the output directory.
ResultFiles == { f \in DOMAIN outFiles : outFiles[f].kind = "result" }

ManifestWritten ==
    /\ manifest_path \in DOMAIN outFiles
    /\ outFiles[manifest_path].kind = "manifest"

Finished == pc = "done"

Succeeded == pc = "done" /\ exit_code = 0

\* What the decode call for (image, k-th family) emitted, <<>> if none was made.
RawOf(name, k) ==
    IF \E r \in rawOut : r.image = name /\ r.fam = k
      THEN (CHOOSE r \in rawOut : r.image = name /\ r.fam = k).dets
      ELSE <<>>

\* The decoder's emissions for an image, registry order, families 1..k, each
\* raw detection tagged with the position of its family.
RECURSIVE RawFlat(_, _)
RawFlat(name, k) ==
    IF k = 0 THEN <<>>
    ELSE RawFlat(name, k - 1) \o
         [i \in 1..Len(RawOf(name, k)) |->
            [fam |-> k, raw |-> RawOf(name, k)[i]]]

(***************************************************************************)
(* C1..C10.                                                                *)
(***************************************************************************)
\* C1: in every variant a successful run on an input directory without any
\* accepted image file leaves no per-image result file and a manifest.json
\* that lists the whole registry.
C1_EmptyInputStillWritesManifest ==
    (Succeeded /\ AcceptedInDir = {}) =>
        /\ ResultFiles = {}
        /\ ManifestWritten
        /\ outFiles[manifest_path].supported_families = RegistryNames

\* C2: after a run that exits 0 the output directory holds as many per-image
\* result files as the input directory holds accepted files.
C2_ResultCountEqualsAccepted ==
    Succeeded => Cardinality(ResultFiles) = Cardinality(AcceptedInDir)

\* C3: a decoder-construction or decode failure of one family on one image
\* does not end the run.
C3_FamilyFailureDoesNotAbort ==
    failure \in {"new", "decode"} => ~Finished

\* C4: the run exits 0 only if every accepted file was loaded, decoded for
\* all families and had its result written, and the manifest was written;
\* every fatal error gives a non-zero exit.
C4_ExitZeroOnlyIfAllDoneAndManifest ==
    /\ Succeeded =>
         /\ \A f \in AcceptedInDir :
              /\ \E i \in 1..Len(loads) : loads[i] = f
              /\ \A k \in 1..Len(RegistryNames) :
                   \E r \in rawOut : r.image = f /\ r.fam = k
         /\ writesOk = Cardinality(AcceptedInDir)
         /\ ManifestWritten
    /\ failure # "none" => (Finished /\ exit_code = 1)

\* C5 as claimed: a failed write of a result or of the manifest ends the run
\* with a non-zero exit before the "Processed N images" line is printed; a
\* printed N is the number of successful result writes; processed_count
\* counts successful writes only.
C5_WriteFailureBeforeProcessedLine ==
    /\ failure \in {"write_result", "write_manifest"} =>
         (Finished /\ exit_code = 1 /\ printed = -1)
    /\ printed # -1 => printed = writesOk
    /\ processed_count = writesOk

\* C5 as amended: a failed result write ends the run with a non-zero exit
\* before the "Processed N images" line is printed; a failed manifest write
\* ends the run with a non-zero exit after that line was printed; a printed
\* N is the number of successful result writes; processed_count counts
\* successful writes only.
C5_WriteFailureIsFatalCountIsExact ==
    /\ failure = "write_result" =>
         (Finished /\ exit_code = 1 /\ printed = -1)
    /\ failure = "write_manifest" =>
         (Finished /\ exit_code = 1 /\ printed = writesOk)
    /\ printed # -1 => printed = writesOk
    /\ processed_count = writesOk

\* A result write failed after an earlier one had succeeded.
C5_Witness ==
    /\ Finished
    /\ failure = "write_result"
    /\ writesOk >= 1

\* C6: a written manifest lists exactly the registry names, in registry
\* order, whatever the images and the detections were.
C6_ManifestListsRegistry ==
    ManifestWritten =>
        outFiles[manifest_path].supported_families = RegistryNames

\* A manifest written after images were processed and tags were detected.
C6_Witness ==
    /\ ManifestWritten
    /\ processed_count >= 1
    /\ emitted >= 1

\* C7: with a missing input path the run ends non-zero, never creates the
\* output directory, never loads an image and never writes a file.
C7_MissingInputDoesNothing ==
    ~inputExists =>
        /\ ~outDirCreated
        /\ loads = <<>>
        /\ DOMAIN outFiles = {}
        /\ exit_code # 0
        /\ Finished => exit_code = 1

\* The run ended on the missing input path.
C7_Witness ==
    /\ ~inputExists
    /\ Finished
    /\ failure = "input_missing"

\* C8: only accepted files (regular file, lower-cased extension in the
\* variant's set) are loaded, written and counted; a successful run has
\* loaded and counted all of them, whatever other entries lie between them.
C8_ExactlyAcceptedFilesProcessed ==
    /\ \A i \in 1..Len(loads) : loads[i] \in AcceptedInDir
    /\ \A f \in ResultFiles : outFiles[f].image \in AcceptedInDir
    /\ processed_count <= Cardinality(AcceptedInDir)
    /\ Succeeded =>
         /\ { loads[i] : i \in 1..Len(loads) } = AcceptedInDir
         /\ processed_count = Cardinality(AcceptedInDir)

\* A successful run that skipped a first entry and processed an upper-case
\* image after it.
C8_Witness ==
    /\ Succeeded
    /\ Len(dir) = 2
    /\ dir[1].name \in {b_bmp, noext, dot_jpg, d_jpg}
    /\ dir[2].name = manifest_JPEG
    /\ processed_count = 1

\* C9: the detections of every written result are the decoder's emissions
\* for that image, family after family in registry order and in emission
\* order within a family: same length, same (family, tag id) at each place.
C9_DetectionsInRegistryThenEmissionOrder ==
    \A f \in ResultFiles :
        LET res == outFiles[f]
            exp == RawFlat(res.image, Len(RegistryNames))
        IN  /\ Len(res.detections) = Len(exp)
            /\ \A i \in 1..Len(exp) :
                 /\ res.detections[i].tag_id = exp[i].raw.id
                 /\ res.detections[i].tag_family = RegistryNames[exp[i].fam]

\* A written result that holds detections of two families.
C9_Witness ==
    \E f \in ResultFiles :
        /\ Len(outFiles[f].detections) >= 2
        /\ outFiles[f].detections[1].tag_family
             # outFiles[f].detections[2].tag_family

\* C10: every written detection has exactly 4 corners, corner i being corner
\* i of the raw detection it was made from, and carries that raw detection's
\* tag id.
C10_FourCornersPassedThrough ==
    \A f \in ResultFiles :
        LET res == outFiles[f]
            exp == RawFlat(res.image, Len(RegistryNames))
        IN  \A i \in 1..Len(res.detections) :
              /\ Len(res.detections[i].corners) = 4
              /\ i <= Len(exp)
              /\ res.detections[i].tag_id = exp[i].raw.id
              /\ \A c \in 1..4 :
                   /\ res.detections[i].corners[c].x = exp[i].raw.quad[c].x
                   /\ res.detections[i].corners[c].y = exp[i].raw.quad[c].y

\* A written result with a detection in it.
C10_Witness ==
    \E f \in ResultFiles : Len(outFiles[f].detections) >= 1

(***************************************************************************)
(* C11..C20.                                                               *)
(***************************************************************************)
\* C11: whatever selector a raw detection carries, the tag_family written
\* for it is one of the registry's names (a selector without a registry
\* entry yields no detection record).
C11_FamilyStringInRegistry ==
    \A i \in 1..Len(all_detections) :
        \E k \in 1..Len(RegistryNames) :
            all_detections[i].tag_family = RegistryNames[k]

\* Reading a command line as the usage text describes it: flags --input and
\* --output, each followed by its value; TRUE if a token in flag position is
\* no flag, a flag has no value, or one of the two flags never occurs.
RECURSIVE Malformed(_, _, _, _)
Malformed(a, i, seenIn, seenOut) ==
    IF i > Len(a) THEN ~(seenIn /\ seenOut)
    ELSE IF a[i] \notin {"--input", "--output"} THEN TRUE
    ELSE IF i = Len(a) THEN TRUE
    ELSE Malformed(a, i + 2, seenIn \/ a[i] = "--input",
                   seenOut \/ a[i] = "--output")

ArgsRejected(a) ==
    \/ Len(a) < 3
    \/ \E i \in 1..Len(a) : a[i] \in {"--help", "-h"}
    \/ Malformed(a, 2, FALSE, FALSE)

\* C12: a command line with fewer than 2 arguments, with --help or -h, with
\* an unknown token, with a flag lacking its value or without one of the two
\* flags never gets past the argument handling: it ends non-zero, and no
\* output directory is created, no directory read, no image loaded, no file
\* written.
C12_BadArgsDoNoWork ==
    ArgsRejected(args) =>
        /\ pc \in {"usage", "parse", "require", "done"}
        /\ exit_code # 0
        /\ Finished => exit_code = 1
        /\ ~outDirCreated
        /\ idx = 1
        /\ loads = <<>>
        /\ writes = <<>>
        /\ DOMAIN outFiles = {}

\* The run ended on `--input in --output`, a flag without its value.
C12_Witness ==
    /\ Finished
    /\ failure = "output_requires_value"
    /\ input_dir # <<>>

\* The detection content of the result files of an output directory.
DetectionContent(out) ==
    [f \in { g \in DOMAIN out : out[g].kind = "result" } |->
        out[f].detections]

\* C13: a second run of the same variant on the same input directory, with a
\* decoder that repeats itself and any enumeration order, ends with the same
\* result files holding the same detections as the first run.
C13_RerunSameDetections ==
    (run = 2 /\ Succeeded) =>
        DetectionContent(outFiles) = DetectionContent(firstOut)

\* The sum of initialization_ms + detection_ms over a list of family timings,
\* taken from the first entry to the last.
RECURSIVE SumTimings(_)
SumTimings(fts) ==
    IF fts = <<>> THEN 0
    ELSE SumTimings(SubSeq(fts, 1, Len(fts) - 1))
         + (fts[Len(fts)].initialization_ms + fts[Len(fts)].detection_ms)

\* C14: in every result linefit has written, total_detection_ms is the sum of
\* initialization_ms + detection_ms over its family_timings (so the load time
\* is no part of it), and image_load_ms is not negative.
C14_TotalIsSumOfFamilyTimings ==
    variant = "linefit" =>
        \A f \in ResultFiles :
            /\ outFiles[f].timings.total_detection_ms =
                   SumTimings(outFiles[f].timings.family_timings)
            /\ outFiles[f].timings.image_load_ms >= 0

\* A result with all nine family timings whose load took time and one of
\* whose decoders took time to build.
C14_Witness ==
    /\ variant = "linefit"
    /\ \E f \in ResultFiles :
         /\ outFiles[f].timings.image_load_ms > 0
         /\ Len(outFiles[f].timings.family_timings) = Len(RegistryNames)
         /\ \E k \in 1..Len(outFiles[f].timings.family_timings) :
              outFiles[f].timings.family_timings[k].initialization_ms > 0

\* The result file name the output format gives each accepted name: the
\* extension replaced by "json".
StemJson(name) ==
    IF name = manifest_JPEG THEN <<"m", "a", "n", "i", "f", "e", "s", "t">> \o
                                 <<".", "j", "s", "o", "n">>
    ELSE <<"a", ".", "j", "s", "o", "n">>

\* The positions in the write history of the result writes to a path.
ResultWritesTo(f) ==
    { i \in 1..Len(writes) : writes[i].kind = "result" /\ writes[i].path = f }

\* C15: every result write is for an accepted file of the directory and goes
\* to <stem>.json; the record a result file holds names, in its image field,
\* the full file name of the image last written there; and a run that exits
\* 0 has written a result for every accepted file.
C15_ResultNamedAfterStem ==
    /\ \A i \in 1..Len(writes) :
         writes[i].kind = "result" =>
             /\ writes[i].image \in AcceptedInDir
             /\ writes[i].path = StemJson(writes[i].image)
    /\ \A f \in ResultFiles :
         /\ ResultWritesTo(f) # {}
         /\ \E i \in ResultWritesTo(f) :
              /\ \A j \in ResultWritesTo(f) : j <= i
              /\ outFiles[f].image = writes[i].image
    /\ Succeeded =>
         \A n \in AcceptedInDir :
             \E i \in 1..Len(writes) :
                 writes[i].kind = "result" /\ writes[i].image = n

\* The result of a.jpeg lies in a.json.
C15_Witness ==
    /\ Succeeded
    /\ <<"a", ".", "j", "s", "o", "n">> \in ResultFiles
    /\ outFiles[<<"a", ".", "j", "s", "o", "n">>].image =
           <<"a", ".", "j", "p", "e", "g">>

\* The positions in the write history of the writes of the manifest.
ManifestWrites == { i \in 1..Len(writes) : writes[i].kind = "manifest" }

\* The failures of the load, decode and result-write steps.
StepFailures == {"load", "new", "decode", "write_result"}

\* C16: the manifest is written at most once per run and nothing is written
\* after it; once a load, a decoder or a result write has failed there is no
\* manifest write.
C16_ManifestOnceAndLast ==
    /\ \A i, j \in ManifestWrites : i = j
    /\ \A i \in ManifestWrites : i = Len(writes)
    /\ failure \in StepFailures =>
         /\ ManifestWrites = {}
         /\ ~ManifestWritten
         /\ Finished

\* Two results were written and then the manifest.
C16_Witness ==
    /\ Len(writes) = 3
    /\ writes[1].kind = "result"
    /\ writes[2].kind = "result"
    /\ writes[3].kind = "manifest"
    /\ ManifestWritten

\* The positions in the write history of the result writes.
ResultWritesOf == { i \in 1..Len(writes) : writes[i].kind = "result" }

\* The accepted files of the directory listed after the given one.
EnumeratedAfter(name) ==
    { dir[j].name : j \in { k \in 1..Len(dir) :
        /\ dir[k].name \in AcceptedInDir
        /\ \E i \in 1..Len(dir) : i < k /\ dir[i].name = name } }

\* The images something was done for: a load, a decode or a result write.
Touched ==
    { loads[i] : i \in 1..Len(loads) }
      \cup { calls[i].image : i \in 1..Len(calls) }
      \cup { writes[i].image : i \in ResultWritesOf }

\* C17: once the load of an image has failed the run has ended with a
\* non-zero status, the failing image (the last one a load was tried for) has
\* no result write and no result file, and nothing was loaded, decoded or
\* written for any accepted file listed after it.
C17_LoadFailureAbortsRun ==
    failure = "load" =>
        /\ Finished
        /\ exit_code = 1
        /\ loads # <<>>
        /\ loads[Len(loads)] \in AcceptedInDir
        /\ \A i \in ResultWritesOf : writes[i].image # loads[Len(loads)]
        /\ \A f \in ResultFiles : outFiles[f].image # loads[Len(loads)]
        /\ EnumeratedAfter(loads[Len(loads)]) \cap Touched = {}

\* The load of the second of two accepted images failed after the first had
\* been loaded and decoded.
C17_Witness ==
    /\ failure = "load"
    /\ Len(calls) >= Len(RegistryNames)
    /\ \E n \in AcceptedInDir :
         /\ n # loads[Len(loads)]
         /\ loads[Len(loads)] \in EnumeratedAfter(n)

\* C18: in every variant no image file is loaded twice in a run, and a run
\* that exits 0 has loaded every accepted file of the directory.
C18_EachImageLoadedOnce ==
    /\ \A i, j \in 1..Len(loads) : loads[i] = loads[j] => i = j
    /\ Succeeded =>
         \A n \in AcceptedInDir : \E i \in 1..Len(loads) : loads[i] = n

\* C19: every decoder was built with the width and height of the image it
\* then decoded, whatever the dimensions of the other images of the batch.
C19_DecoderSizeIsImageSize ==
    \A i \in 1..Len(calls) :
        \A j \in 1..Len(dir) :
            dir[j].name = calls[i].image => calls[i].size = dir[j].dims

\* The decode calls made for an image and the family at a registry position.
CallsFor(n, k) ==
    { i \in 1..Len(calls) : calls[i].image = n /\ calls[i].fam = k }

\* C20: the decode calls of a run come one image after the other and, for an
\* image, one family after the other in registry order, starting anew with
\* the first family only when the previous image has had its last; nothing
\* is called after a call that failed; no (image, family) pair is called
\* twice; and a run that exits 0 has called every pair once.
C20_SequentialNoRetry ==
    LET accepted == AcceptedInDir
        last == Len(RegistryNames)
    IN  /\ \A i \in 1..Len(calls) :
             /\ calls[i].image \in accepted
             /\ calls[i].fam \in 1..last
             /\ i = 1 => calls[i].fam = 1
             /\ i > 1 =>
                  /\ calls[i - 1].status = "ok"
                  /\ IF calls[i].fam = 1
                       THEN /\ calls[i - 1].fam = last
                            /\ calls[i].image # calls[i - 1].image
                       ELSE /\ calls[i].fam = calls[i - 1].fam + 1
                            /\ calls[i].image = calls[i - 1].image
        /\ Cardinality({ <<calls[i].fam, calls[i].image>> :
                            i \in 1..Len(calls) }) = Len(calls)
        /\ Succeeded =>
             \A n \in accepted : \A k \in 1..last :
                 Cardinality(CallsFor(n, k)) = 1

\* A run over two images exited 0 after eighteen decode calls.
C20_Witness ==
    /\ Succeeded
    /\ Cardinality(AcceptedInDir) = 2
    /\ Len(calls) = 2 * Len(RegistryNames)

\* C21: a run whose calls all return ends, for good, with exit status 0 or
\* with exit status 1, and once a step has failed the run is over: the step
\* is not tried again and nothing else is done.
C21_RunTerminates ==
    /\ <>[](pc = "done" /\ exit_code \in {0, 1})
    /\ [](failure # "none" => (pc = "done" /\ exit_code = 1))

\* A run that got as far as the manifest and ended when its write failed.
C21_Witness ==
    /\ pc = "done"
    /\ failure = "write_manifest"
    /\ exit_code = 1
    /\ writesOk = 2

\* C22: no path is written twice in a run, and after a run that exits 0 the
\* file <stem>.json of every accepted file of the directory is a result
\* whose image field is that file's name.
C22_NoArtifactOverwritten ==
    /\ Cardinality({ writes[i].path : i \in 1..Len(writes) }) = Len(writes)
    /\ Succeeded =>
         \A n \in AcceptedInDir :
             /\ StemJson(n) \in ResultFiles
             /\ outFiles[StemJson(n)].image = n

\* The failures of the load and detection steps.
DetectionFailures == {"load", "new", "decode"}

\* TRUE for a directory entry that is an accepted image file.
AcceptedEntry(e) == e.is_file /\ e.name \in AcceptedNames(variant)

\* The names of the accepted files in enumeration order.
AcceptedSeq ==
    LET s == SelectSeq(dir, AcceptedEntry)
    IN  [i \in 1..Len(s) |-> s[i].name]

\* The images of the result writes, in the order of the writes.
ResultImages ==
    LET s == SelectSeq(writes, LAMBDA w : w.kind = "result")
    IN  [i \in 1..Len(s) |-> s[i].image]

\* C23: in centred a result is written only when every (image, family) pair
\* of the batch has been decoded, so a run that failed in loading or
\* detection has written nothing; in 0.1.10 and linefit the images are loaded
\* in enumeration order, all but possibly the last loaded one have their
\* result written, and a run that failed in loading or detection at image
\* k+1 leaves exactly the result files of images 1..k.
C23_WriteOrderPerVariant ==
    LET images == AcceptedSeq
        written == ResultImages
    IN  IF variant = "centred"
          THEN /\ written # <<>> =>
                    /\ Len(calls) = Len(images) * Len(RegistryNames)
                    /\ \A i \in 1..Len(calls) : calls[i].status = "ok"
               /\ failure \in DetectionFailures =>
                    (written = <<>> /\ DOMAIN outFiles = {})
          ELSE /\ Len(loads) <= Len(images)
               /\ loads = SubSeq(images, 1, Len(loads))
               /\ Len(written) \in {Len(loads) - 1, Len(loads)}
               /\ written = SubSeq(images, 1, Len(written))
               /\ failure \in DetectionFailures =>
                    /\ Len(written) = Len(loads) - 1
                    /\ DOMAIN outFiles =
                         { StemJson(written[i]) : i \in 1..Len(written) }

\* linefit failed in the detection of its second image and left the result
\* of the first.
C23_Witness ==
    /\ variant = "linefit"
    /\ failure = "decode"
    /\ Len(loads) = 2
    /\ Cardinality(ResultFiles) = 1

====
